---- MODULE Spec2Model ----
(***************************************************************************)
(* Model of src/jsonParser.go: the JSONParser lexer (readNextToken,        *)
(* skipWhitespaces over a bytes.Buffer) and the recursive-descent parser   *)
(* (parseValue, parseObject, parseArray).                                  *)
(*                                                                         *)
(* Bytes are one-character strings, byte sequences (inputs, tokens) are    *)
(* sequences of them.  The Go call stack is the variable `stack`; every    *)
(* frame carries the position (pc, named after the source line) and the    *)
(* locals of one activation.                                               *)
(***************************************************************************)
EXTENDS Integers, Sequences, FiniteSets, TLC

VARIABLES
    docs,          \* the documents the driver parses, one parser each
    cur,           \* index in docs of the document being parsed
    results,       \* outcome of every finished parse, in order
    input,         \* p.input: the bytes.Buffer [buf, off, lastRead]
    currentToken,  \* p.currentToken
    stack,         \* call stack of the running parse, innermost frame last
    retOk,         \* value returned by the last readNextToken call
    retVal,        \* JSONValue returned by the last parse* call
    status         \* "running", or how the parse ended

vars == <<docs, cur, results, input, currentToken, stack, retOk, retVal, status>>

(***************************************************************************)
(* Bounds of the model.                                                    *)
(***************************************************************************)
\* every byte sequence over Alphabet up to this length is parsed
MaxLen == 3
\* token sequences of up to this many tokens are parsed with and without
\* an inserted whitespace byte
MaxToks == 3
\* objects and arrays built from up to this many members / elements
MaxMembers == 2
\* a loop that appended this many elements more than the input has bytes
\* never ends: the run is cut there as memory exhaustion
MaxSpin == 2
\* a recursion this many frames deeper than any terminating parse of the
\* input can get never ends: the run is cut there as stack exhaustion
MaxDepth == 4

(***************************************************************************)
(* Bytes.                                                                  *)
(***************************************************************************)
Whitespace == {" ", "\n", "\r", "\t"}
Structural == {"{", "}", "[", "]", ":", ","}
Digits == {"0", "1", "2", "3", "4", "5", "6", "7", "8", "9"}
NumericSet == Digits \cup {"+", "-", ".", "e", "E"}
Quote == "\""

null == <<"n", "u", "l", "l">>
true == <<"t", "r", "u", "e">>
false == <<"f", "a", "l", "s", "e">>

Min(a, b) == IF a < b THEN a ELSE b

(***************************************************************************)
(* bytes.Buffer, as far as the parser uses it.                             *)
(***************************************************************************)
NewBuffer(bytes) == [buf |-> bytes, off |-> 0, lastRead |-> "opInvalid"]

\* Buffer.Len: the number of unread bytes
BufLen(b) == Len(b.buf) - b.off

\* Buffer.String: the unread bytes
BufString(b) == SubSeq(b.buf, b.off + 1, Len(b.buf))

\* the bytes Buffer.Next(n) returns
NextData(b, n) == SubSeq(b.buf, b.off + 1, b.off + Min(n, BufLen(b)))

\* the buffer after Buffer.Next(n)
BufNext(b, n) ==
    [b EXCEPT !.off = b.off + Min(n, BufLen(b)),
              !.lastRead = IF Min(n, BufLen(b)) > 0 THEN "opRead" ELSE "opInvalid"]

\* a push-back that steps over one byte too many
UnreadByteTwice(b) ==
    IF b.lastRead = "opInvalid"
    THEN b
    ELSE [b EXCEPT !.lastRead = "opInvalid",
                   !.off = IF b.off > 1 THEN b.off - 2 ELSE 0]

\* the buffer after Buffer.UnreadByte (its error result is dropped by the code)
BufUnreadByte(b) ==
    IF b.lastRead = "opInvalid"
    THEN b
    ELSE [b EXCEPT !.lastRead = "opInvalid",
                   !.off = IF b.off > 0 THEN b.off - 1 ELSE b.off]

\* s[lo:hi] of Go is defined iff 0 <= lo <= hi <= len(s); otherwise it panics
SliceOK(s, lo, hi) == 0 <= lo /\ lo <= hi /\ hi <= Len(s)
GoSlice(s, lo, hi) == SubSeq(s, lo + 1, hi)

(***************************************************************************)
(* json.Number(tok).Float64(), i.e. strconv.ParseFloat(tok, 64): the       *)
(* syntax strconv accepts (decimal and hexadecimal literals, underscores   *)
(* between digits, inf / infinity / nan in any case), the value rounded to *)
(* the nearest float64 (ties to even), a range error on overflow and zero  *)
(* on underflow.  A float64 is its sign, its 53 significand bits b0.b1...  *)
(* (most significant first) and its binary exponent; zero and subnormals   *)
(* have b0 = 0 and the exponent -1022.                                     *)
(***************************************************************************)
UpperCase ==
    <<"A", "B", "C", "D", "E", "F", "G", "H", "I", "J", "K", "L", "M",
      "N", "O", "P", "Q", "R", "S", "T", "U", "V", "W", "X", "Y", "Z">>
LowerCase ==
    <<"a", "b", "c", "d", "e", "f", "g", "h", "i", "j", "k", "l", "m",
      "n", "o", "p", "q", "r", "s", "t", "u", "v", "w", "x", "y", "z">>

\* an upper-case ASCII letter in lower case, any other byte unchanged
ToLower(c) ==
    IF \E i \in 1..Len(UpperCase) : UpperCase[i] = c
    THEN LowerCase[CHOOSE i \in 1..Len(UpperCase) : UpperCase[i] = c]
    ELSE c

HexLetters == {"a", "b", "c", "d", "e", "f"}

\* the value of a decimal or (lower-case) hexadecimal digit
DigitVal(c) ==
    CASE c = "0" -> 0 [] c = "1" -> 1 [] c = "2" -> 2 [] c = "3" -> 3
      [] c = "4" -> 4 [] c = "5" -> 5 [] c = "6" -> 6 [] c = "7" -> 7
      [] c = "8" -> 8 [] c = "9" -> 9 [] c = "a" -> 10 [] c = "b" -> 11
      [] c = "c" -> 12 [] c = "d" -> 13 [] c = "e" -> 14 [] c = "f" -> 15

\* F applied to the value of v, which is computed once however often F uses it
Strict(v, F(_)) == CHOOSE r \in {F(w) : w \in {v}} : TRUE

\* Natural numbers of any size: a sequence of limbs in base 10^9, the least
\* significant first and the most significant not 0 (zero is <<>>).
Base == 1000000000
LimbDigits == 9

Pow10(r) ==
    CASE r = 0 -> 1 [] r = 1 -> 10 [] r = 2 -> 100 [] r = 3 -> 1000
      [] r = 4 -> 10000 [] r = 5 -> 100000 [] r = 6 -> 1000000
      [] r = 7 -> 10000000 [] r = 8 -> 100000000 [] r = 9 -> 1000000000

\* the greatest element of a finite set of positive numbers, 0 if it has none
MaxOf(set) ==
    Strict(set, LAMBDA S : IF S = {} THEN 0 ELSE CHOOSE x \in S : \A y \in S : y <= x)

BigStrip(limbs) ==
    Strict(limbs, LAMBDA a : SubSeq(a, 1, MaxOf({i \in 1..Len(a) : a[i] # 0})))

\* 2 * a
BigDouble(limbs) ==
    Strict(limbs, LAMBDA a :
        LET carry(i) == IF i >= 1 /\ 2 * a[i] >= Base THEN 1 ELSE 0
        IN  IF a = <<>> THEN <<>>
            ELSE [i \in 1..(Len(a) + carry(Len(a))) |->
                    (IF i <= Len(a) THEN (2 * a[i]) % Base ELSE 0) + carry(i - 1)])

\* 2 * a + bit
BigDoublePlus(limbs, bit) ==
    Strict(limbs, LAMBDA a :
        IF a = <<>> THEN (IF bit = 0 THEN <<>> ELSE <<bit>>)
        ELSE [BigDouble(a) EXCEPT ![1] = @ + bit])

\* -1, 0 or 1 as a < b, a = b or a > b
BigCmp(a, b) ==
    IF Len(a) > Len(b) THEN 1
    ELSE IF Len(a) < Len(b) THEN 0 - 1
    ELSE Strict(MaxOf({i \in 1..Len(a) : a[i] # b[i]}), LAMBDA d :
             IF d = 0 THEN 0 ELSE IF a[d] > b[d] THEN 1 ELSE 0 - 1)

\* a - b, for a >= b: limb i borrows iff the limbs of a below it make a
\* smaller number than those of b
BigSub(a, b) ==
    LET bl(i) == IF i <= Len(b) THEN b[i] ELSE 0
        low(i) == MaxOf({j \in 1..(i - 1) : a[j] # bl(j)})
        borrow(i) == Strict(low(i), LAMBDA d : IF d > 0 /\ a[d] < bl(d) THEN 1 ELSE 0)
    IN  BigStrip([i \in 1..Len(a) |-> (a[i] - bl(i) - borrow(i) + Base) % Base])

\* a * 10^n
BigTimesPow10(a, n) ==
    LET r == n % LimbDigits
        lo(x) == (x % Pow10(LimbDigits - r)) * Pow10(r)
        hi(x) == x \div Pow10(LimbDigits - r)
        shifted == IF r = 0 THEN a
                   ELSE BigStrip([i \in 1..(Len(a) + 1) |->
                            (IF i <= Len(a) THEN lo(a[i]) ELSE 0)
                                + (IF i >= 2 THEN hi(a[i - 1]) ELSE 0)])
    IN  IF a = <<>> THEN <<>>
        ELSE [i \in 1..(n \div LimbDigits) |-> 0] \o shifted

\* a * 2^n: one half of the doublings, and then the other
RECURSIVE BigTimesPow2(_, _)
BigTimesPow2(a, n) ==
    IF n = 0 THEN a
    ELSE IF n = 1 THEN BigDouble(a)
    ELSE Strict(BigTimesPow2(a, n \div 2), LAMBDA v : BigTimesPow2(v, n - n \div 2))

\* the number written in base 10 by the digit values ds
BigFromDecimal(ds) ==
    LET n == Len(ds)
        digit(p) == IF p < n THEN ds[n - p] ELSE 0
        limb(p) == digit(p) + 10 * digit(p + 1) + 100 * digit(p + 2)
                     + 1000 * digit(p + 3) + 10000 * digit(p + 4)
                     + 100000 * digit(p + 5) + 1000000 * digit(p + 6)
                     + 10000000 * digit(p + 7) + 100000000 * digit(p + 8)
    IN  BigStrip([i \in 1..((n + LimbDigits - 1) \div LimbDigits) |->
                     limb(LimbDigits * (i - 1))])

\* the number written in base 16 by the digit values ds[i..], after acc
RECURSIVE BigFromHex(_, _, _)
BigFromHex(ds, i, acc) ==
    IF i > Len(ds) THEN acc
    ELSE BigFromHex(ds, i + 1,
             BigDoublePlus(BigDoublePlus(BigDoublePlus(BigDoublePlus(acc,
                 ds[i] \div 8), (ds[i] \div 4) % 2), (ds[i] \div 2) % 2), ds[i] % 2))

\* strconv.special: [sign] inf, [sign] infinity, nan, in any case
Special(s) ==
    LET n == Len(s)
        signed == n >= 1 /\ s[1] \in {"+", "-"}
        t == IF signed THEN SubSeq(s, 2, n) ELSE s
        low == [i \in 1..Len(t) |-> ToLower(t[i])]
    IN  IF low \in {<<"i", "n", "f">>, <<"i", "n", "f", "i", "n", "i", "t", "y">>}
        THEN [ok |-> TRUE, kind |-> "inf", neg |-> n >= 1 /\ s[1] = "-"]
        ELSE IF ~signed /\ low = <<"n", "a", "n">>
        THEN [ok |-> TRUE, kind |-> "nan", neg |-> FALSE]
        ELSE [ok |-> FALSE, kind |-> "", neg |-> FALSE]

\* strconv.readFloat, the mantissa loop from s[i] on: it passes underscores,
\* one point and digits, and stops at the first other byte or second point.
\* end is where it stops, ds the digit values read, frac how many of them
\* follow the point.
ReadMantissa(s, i, hex) ==
    LET IsDigit(c) == c \in Digits \/ (hex /\ ToLower(c) \in HexLetters)
        points == {j \in i..Len(s) : s[j] = "."}
        MinOf(S) == CHOOSE x \in S : \A y \in S : x <= y
        stops == {j \in i..Len(s) :
                     \/ ~(IsDigit(s[j]) \/ s[j] \in {"_", "."})
                     \/ s[j] = "." /\ \E p \in points : p < j}
        end == IF stops = {} THEN Len(s) + 1 ELSE MinOf(stops)
        read == SubSeq(s, i, end - 1)
        dot == IF \E j \in 1..Len(read) : read[j] = "."
               THEN MinOf({j \in 1..Len(read) : read[j] = "."})
               ELSE Len(read) + 1
        digits(t) == SelectSeq(t, IsDigit)
    IN  [i |-> end,
         ds |-> [j \in 1..Len(digits(read)) |-> DigitVal(ToLower(digits(read)[j]))],
         frac |-> Len(digits(SubSeq(read, dot + 1, Len(read))))]

\* strconv.readFloat, the digits of the exponent: e stops growing at 10000
RECURSIVE ReadExponent(_, _, _)
ReadExponent(s, i, e) ==
    IF i <= Len(s) /\ s[i] = "_" THEN ReadExponent(s, i + 1, e)
    ELSE IF i <= Len(s) /\ s[i] \in Digits
    THEN ReadExponent(s, i + 1, IF e < 10000 THEN e * 10 + DigitVal(s[i]) ELSE e)
    ELSE [i |-> i, e |-> e]

\* strconv.underscoreOK: past the sign and a base prefix 0b, 0o or 0x, every
\* underscore follows a digit (or the prefix) and is followed by a digit
UnderscoreOK(s) ==
    LET t == IF Len(s) >= 1 /\ s[1] \in {"+", "-"} THEN SubSeq(s, 2, Len(s)) ELSE s
        prefix == Len(t) >= 2 /\ t[1] = "0" /\ ToLower(t[2]) \in {"b", "o", "x"}
        hex == prefix /\ ToLower(t[2]) = "x"
        start == IF prefix THEN 3 ELSE 1
        IsDigit(c) == c \in Digits \/ (hex /\ ToLower(c) \in HexLetters)
    IN  \A i \in start..Len(t) :
            t[i] = "_" =>
                /\ IF i = start THEN prefix ELSE IsDigit(t[i - 1])
                /\ i + 1 <= Len(t) /\ IsDigit(t[i + 1])

\* strconv.readFloat on the whole of s: ok iff s is a decimal or hexadecimal
\* floating-point literal; its value is ds (in base 10 or 16) * base^(-frac)
\* * 10^e, or * 2^e for a hexadecimal literal
ReadFloat(s) ==
    LET n == Len(s)
        i0 == IF n >= 1 /\ s[1] \in {"+", "-"} THEN 2 ELSE 1
        hex == i0 + 2 <= n /\ s[i0] = "0" /\ ToLower(s[i0 + 1]) = "x"
    IN  Strict(ReadMantissa(s, IF hex THEN i0 + 2 ELSE i0, hex), LAMBDA m :
            LET hasExp == m.i <= n /\ ToLower(s[m.i]) = (IF hex THEN "p" ELSE "e")
                esigned == m.i + 1 <= n /\ s[m.i + 1] \in {"+", "-"}
                e1 == IF esigned THEN m.i + 2 ELSE m.i + 1
                expOK == IF hasExp THEN e1 <= n /\ s[e1] \in Digits ELSE ~hex
            IN  Strict(ReadExponent(s, e1, 0), LAMBDA x :
                    [ok |-> /\ m.ds # <<>>
                            /\ expOK
                            /\ (IF hasExp THEN x.i ELSE m.i) = n + 1
                            /\ (\E i \in 1..n : s[i] = "_") => UnderscoreOK(s),
                     neg |-> n >= 1 /\ s[1] = "-",
                     hex |-> hex,
                     ds |-> m.ds,
                     frac |-> m.frac,
                     e |-> IF ~hasExp THEN 0
                           ELSE IF esigned /\ s[m.i + 1] = "-" THEN 0 - x.e ELSE x.e]))

Float(kind, neg, mant, exp) == [kind |-> kind, neg |-> neg, mant |-> mant, exp |-> exp]
ZeroBits == [i \in 1..53 |-> 0]

\* (a / b) * 2^e, unchanged in value: the smaller of a and b times 2^k while
\* that does not make it the greater
ScaleBy(q, k) ==
    Strict(q, LAMBDA v :
    Strict(BigTimesPow2(v.b, k), LAMBDA bk :
        IF BigCmp(bk, v.a) <= 0 THEN [a |-> v.a, b |-> bk, e |-> v.e + k]
        ELSE Strict(BigTimesPow2(v.a, k), LAMBDA ak :
                 IF BigCmp(ak, v.b) <= 0 THEN [a |-> ak, b |-> v.b, e |-> v.e - k]
                 ELSE v)))

RECURSIVE Scaled(_, _)
Scaled(q, k) ==
    Strict(q, LAMBDA v :
    Strict(ScaleBy(v, k), LAMBDA w : IF w = v THEN v ELSE Scaled(w, k)))

\* a / b = (a' / b') * 2^e' with b' <= a' < 2 * b', for a, b > 0
Normalize(a, b) ==
    Strict(Scaled(Scaled(Scaled(Scaled(Scaled(Scaled(
               [a |-> a, b |-> b, e |-> 0], 1024), 256), 64), 16), 4), 1),
           LAMBDA v : IF BigCmp(v.a, v.b) < 0
                      THEN [a |-> BigDouble(v.a), b |-> v.b, e |-> v.e - 1]
                      ELSE v)

\* one more bit of a / b, for a < 2 * b: q.bits are the bits so far and q.rem2
\* is twice the remainder
QuotientBit(q, b) ==
    IF BigCmp(q.rem2, b) >= 0
    THEN [bits |-> Append(q.bits, 1), rem2 |-> BigDouble(BigSub(q.rem2, b))]
    ELSE [bits |-> Append(q.bits, 0), rem2 |-> BigDouble(q.rem2)]

\* k more bits: one half of them, and then the other
RECURSIVE QuotientBits(_, _, _)
QuotientBits(q, b, k) ==
    IF k = 0 THEN q
    ELSE IF k = 1 THEN Strict(q, LAMBDA v : QuotientBit(v, b))
    ELSE Strict(QuotientBits(q, b, k \div 2), LAMBDA v : QuotientBits(v, b, k - k \div 2))

\* bits and exp, or the next float64 above when up; not ok beyond the largest
RoundBits(neg, bits, exp, up) ==
    LET carry == \A i \in 1..53 : bits[i] = 1
        z == CHOOSE i \in 1..53 : bits[i] = 0 /\ \A j \in (i + 1)..53 : bits[j] = 1
    IN  IF ~up THEN [ok |-> TRUE, val |-> Float("finite", neg, bits, exp)]
        ELSE IF ~carry
        THEN [ok |-> TRUE,
              val |-> Float("finite", neg,
                            [i \in 1..53 |-> IF i < z THEN bits[i] ELSE IF i = z THEN 1 ELSE 0],
                            exp)]
        ELSE IF exp + 1 > 1023 THEN [ok |-> FALSE, val |-> Float("inf", neg, <<>>, 0)]
        ELSE [ok |-> TRUE,
              val |-> Float("finite", neg, [i \in 1..53 |-> IF i = 1 THEN 1 ELSE 0], exp + 1)]

\* the float64 nearest to (a / b) * 2^e (a, b > 0), ties to even: not ok
\* (ErrRange) when it is beyond the largest float64, zero when it is below half
\* the smallest; below 2^-1022 the bits are those of a subnormal
RoundFloat(neg, a, b, e) ==
    Strict(Normalize(a, b), LAMBDA nz :
    Strict(nz.e + e, LAMBDA exp :
        IF exp > 1023 THEN [ok |-> FALSE, val |-> Float("inf", neg, <<>>, 0)]
        ELSE IF exp < 0 - 1076
        THEN [ok |-> TRUE, val |-> Float("finite", neg, ZeroBits, 0 - 1022)]
        ELSE Strict(IF exp < 0 - 1022 THEN (0 - 1022) - exp ELSE 0, LAMBDA shift :
             Strict(BigTimesPow2(nz.b, shift), LAMBDA den :
             Strict(QuotientBits([bits |-> <<>>, rem2 |-> nz.a], den, 53), LAMBDA q :
             Strict(BigCmp(q.rem2, den), LAMBDA half :
                 RoundBits(neg, q.bits, exp + shift,
                           half > 0 \/ (half = 0 /\ q.bits[53] = 1))))))))

\* how many digits of ds remain without its leading zeros
Significant(ds) ==
    IF \A i \in 1..Len(ds) : ds[i] = 0 THEN 0
    ELSE Len(ds) + 1 - (CHOOSE i \in 1..Len(ds) : ds[i] # 0 /\ \A j \in 1..(i - 1) : ds[j] = 0)

\* the decimal literal of digit values ds times 10^e10
DecimalFloat(neg, ds, e10) ==
    Strict(Significant(ds), LAMBDA k :
        IF k = 0 THEN [ok |-> TRUE, val |-> Float("finite", neg, ZeroBits, 0 - 1022)]
        ELSE IF k - 1 + e10 >= 309 THEN [ok |-> FALSE, val |-> Float("inf", neg, <<>>, 0)]
        ELSE IF k + e10 <= 0 - 324
        THEN [ok |-> TRUE, val |-> Float("finite", neg, ZeroBits, 0 - 1022)]
        ELSE IF e10 >= 0
        THEN Strict(BigTimesPow10(BigFromDecimal(ds), e10), LAMBDA a :
                 RoundFloat(neg, a, <<1>>, 0))
        ELSE Strict(BigFromDecimal(ds), LAMBDA a :
             Strict(BigTimesPow10(<<1>>, 0 - e10), LAMBDA b :
                 RoundFloat(neg, a, b, 0))))

\* the hexadecimal literal of digit values ds times 2^e2
HexFloat(neg, ds, e2) ==
    IF Significant(ds) = 0
    THEN [ok |-> TRUE, val |-> Float("finite", neg, ZeroBits, 0 - 1022)]
    ELSE Strict(BigFromHex(ds, 1, <<>>), LAMBDA a : RoundFloat(neg, a, <<1>>, e2))

Float64(tok) ==
    Strict(Special(tok), LAMBDA sp :
        IF sp.ok THEN [ok |-> TRUE, val |-> Float(sp.kind, sp.neg, <<>>, 0)]
        ELSE Strict(ReadFloat(tok), LAMBDA r :
                 IF ~r.ok THEN [ok |-> FALSE, val |-> Float("error", FALSE, <<>>, 0)]
                 ELSE IF r.hex THEN HexFloat(r.neg, r.ds, r.e - 4 * r.frac)
                 ELSE DecimalFloat(r.neg, r.ds, r.e - r.frac)))

(***************************************************************************)
(* JSONValue.                                                              *)
(***************************************************************************)
JSONValue(type, value) == [Type |-> type, Value |-> value]
Nil == "nil"
ZeroValue == JSONValue("", Nil)

\* object[key] = value on a Go map
MapSet(object, key, value) ==
    [k \in (DOMAIN object) \cup {key} |-> IF k = key THEN value ELSE object[k]]
EmptyMap == [k \in {} |-> ZeroValue]

\* the Type string of a keyword leaf is the token itself
TypeOf(tok) ==
    CASE tok = null -> "null" [] tok = true -> "true" [] tok = false -> "false"

(***************************************************************************)
(* Documents.                                                              *)
(***************************************************************************)
\* {"name": "John Doe", "age": 30, "active": true, "tags": ["a", "b"]}   (spec.md section 8, object example)
DocPerson ==
    <<"{", Quote, "n", "a", "m", "e", Quote, ":", " ", Quote, "J", "o",
      "h", "n", " ", "D", "o", "e", Quote, ",", " ", Quote, "a", "g", "e",
      Quote, ":", " ", "3", "0", ",", " ", Quote, "a", "c", "t", "i", "v",
      "e", Quote, ":", " ", "t", "r", "u", "e", ",", " ", Quote, "t", "a",
      "g", "s", Quote, ":", " ", "[", Quote, "a", Quote, ",", " ", Quote,
      "b", Quote, "]", "}">>

\* [1, 2, 3]   (spec.md section 8, array example)
DocArray123 ==
    <<"[", "1", ",", " ", "2", ",", " ", "3", "]">>

\* ["x", [1,2,3]]   (spec.md section 8, nested arrays)
DocNested ==
    <<"[", Quote, "x", Quote, ",", " ", "[", "1", ",", "2", ",", "3", "]",
      "]">>

\* {"a" "b"}   (spec.md section 8, missing ':')
DocNoColon ==
    <<"{", Quote, "a", Quote, " ", Quote, "b", Quote, "}">>

\* tru   (spec.md section 8, truncated literal)
DocTru ==
    <<"t", "r", "u">>

\* null
DocNull ==
    <<"n", "u", "l", "l">>

\* true
DocTrue ==
    <<"t", "r", "u", "e">>

\* false
DocFalse ==
    <<"f", "a", "l", "s", "e">>

\* null,
DocNullComma ==
    <<"n", "u", "l", "l", ",">>

\* nnull
DocNNull ==
    <<"n", "n", "u", "l", "l">>

\* ttrue
DocTTrue ==
    <<"t", "t", "r", "u", "e">>

\* ffalse
DocFFalse ==
    <<"f", "f", "a", "l", "s", "e">>

\* 30,
DocThirty ==
    <<"3", "0", ",">>

\* {1:,,}
DocObjNumKey ==
    <<"{", "1", ":", ",", ",", "}">>

\* {:::}
DocObjColons ==
    <<"{", ":", ":", ":", "}">>

\* { }
DocEmptyObj ==
    <<"{", " ", "}">>

Examples ==
    {DocPerson, DocArray123, DocNested, DocNoColon, DocTru, DocNull, DocTrue,
     DocFalse, DocNullComma, DocNNull, DocTTrue, DocFFalse, DocThirty,
     DocObjNumKey, DocObjColons, DocEmptyObj}

Alphabet == {"{", "}", "[", "]", ":", ",", Quote, "n", "1", " "}

\* every byte sequence over S of length 0 .. n
AllSeqs(S, n) == UNION {[1..k -> S] : k \in 0..n}

RECURSIVE Concat(_)
Concat(ss) == IF ss = <<>> THEN <<>> ELSE Head(ss) \o Concat(Tail(ss))

\* ss[1] sep ss[2] sep ... ss[n]
RECURSIVE Join(_, _)
Join(ss, sep) ==
    IF ss = <<>> THEN <<>>
    ELSE IF Len(ss) = 1 THEN ss[1]
    ELSE ss[1] \o sep \o Join(Tail(ss), sep)

\* Token texts, and token sequences written without and with one whitespace
\* byte between two neighbouring tokens of which at least one is punctuation.
Vocabulary == {<<"[">>, <<"}">>, <<",">>, <<"1">>, null}
Punctuation == {<<c>> : c \in Structural}
TokSeqs == UNION {[1..k -> Vocabulary] : k \in 2..MaxToks}
Gaps(ts) == {k \in 1..(Len(ts) - 1) : ts[k] \in Punctuation \/ ts[k + 1] \in Punctuation}
WithSpace(ts, k, w) == Concat(SubSeq(ts, 1, k)) \o <<w>> \o Concat(SubSeq(ts, k + 1, Len(ts)))
WsPairs ==
    UNION {{<<Concat(ts), WithSpace(ts, k, w)>> : k \in Gaps(ts), w \in Whitespace} :
           ts \in TokSeqs}

\* Leaves: the text of a JSON value and the JSONValue it denotes.
Leaf(text, value) == [text |-> text, value |-> value]
StringValue(s) == JSONValue("string", s)
NumberValue(tok) == JSONValue("number", Float64(tok).val)
LeafOne == Leaf(<<"1">>, NumberValue(<<"1">>))
LeafTrue == Leaf(true, JSONValue("true", Nil))
LeafX == Leaf(<<Quote, "x", Quote>>, StringValue(<<"x">>))
LeafNested ==
    Leaf(<<"[", "1", ",", "2", "]">>,
         JSONValue("array", <<NumberValue(<<"1">>), NumberValue(<<"2">>)>>))
Leaves == {LeafOne, LeafTrue, LeafX}
Elements == Leaves \cup {LeafNested}
Keys == {<<"a">>, <<"b">>}

\* An object text from a list of members <<key, leaf>>, and its value.
MemberLists == UNION {[1..k -> Keys \X Leaves] : k \in 0..MaxMembers}
MemberText(m) == <<Quote>> \o m[1] \o <<Quote, ":">> \o m[2].text
ObjText(ms) == <<"{">> \o Join([i \in 1..Len(ms) |-> MemberText(ms[i])], <<",">>) \o <<"}">>
RECURSIVE ObjMap(_)
ObjMap(ms) ==
    IF ms = <<>> THEN EmptyMap
    ELSE MapSet(ObjMap(SubSeq(ms, 1, Len(ms) - 1)), ms[Len(ms)][1], ms[Len(ms)][2].value)

\* An array text from a list of elements, and its value.
ElementLists == UNION {[1..k -> Elements] : k \in 1..MaxMembers}
ArrText(es) == <<"[">> \o Join([i \in 1..Len(es) |-> es[i].text], <<",">>) \o <<"]">>
ArrValue(es) == JSONValue("array", [i \in 1..Len(es) |-> es[i].value])

Documents ==
    Examples \cup AllSeqs(Alphabet, MaxLen)
             \cup {ObjText(ms) : ms \in MemberLists}
             \cup {ArrText(es) : es \in ElementLists}

(***************************************************************************)
(* Frames of the call stack.                                               *)
(***************************************************************************)
\* skipWhitespaces
FrameSW == [fn |-> "skipWhitespaces", pc |-> "L85", currentChar |-> ""]
\* readNextToken; entry is the cursor at the call, kept for the properties
FrameRNT(entry) ==
    [fn |-> "readNextToken", pc |-> "L28", currentChar |-> "", start |-> 0,
     entry |-> entry]
\* parseValue; ok is the result of its readNextToken call, which the code drops
FramePV == [fn |-> "parseValue", pc |-> "L96", ok |-> TRUE]
FramePO == [fn |-> "parseObject", pc |-> "L122", object |-> EmptyMap, key |-> <<>>]
FramePA == [fn |-> "parseArray", pc |-> "L148", array |-> <<>>]

Top == stack[Len(stack)]
At(fn, pc) == status = "running" /\ stack # <<>> /\ Top.fn = fn /\ Top.pc = pc
Callers == SubSeq(stack, 1, Len(stack) - 1)

Outcome(kind, value) == [kind |-> kind, value |-> value]

\* the parse ends here without a Value: a panic or a fatal runtime error
Abort(kind) ==
    /\ status' = kind
    /\ results' = Append(results, Outcome(kind, ZeroValue))
    /\ UNCHANGED <<docs, cur, input, currentToken, stack, retOk, retVal>>

\* the frames a terminating parse of the input can have at most: every level
\* of nesting consumed a byte, plus parseValue, readNextToken, skipWhitespaces
StackLimit == 2 * Len(input.buf) + MaxDepth
\* the elements a terminating parseArray can have appended at most
ArrayLimit == Len(input.buf) + MaxSpin

\* the top frame moves to pc
Goto(pc) ==
    /\ stack' = [stack EXCEPT ![Len(stack)].pc = pc]
    /\ UNCHANGED <<docs, cur, results, status>>

\* the top frame calls a function and continues at pc when that returns
Call(pc, frame) ==
    IF Len(stack) >= StackLimit
    THEN Abort("stack_overflow")
    ELSE /\ stack' = Append([stack EXCEPT ![Len(stack)].pc = pc], frame)
         /\ UNCHANGED <<docs, cur, results, status, input, currentToken, retOk, retVal>>

\* readNextToken or skipWhitespaces returns
Return ==
    /\ stack' = Callers
    /\ UNCHANGED <<docs, cur, results, status>>

\* parseValue, parseObject or parseArray returns v; the outermost parseValue
\* returns to the driver
ReturnValue(v) ==
    /\ stack' = Callers
    /\ retVal' = v
    /\ IF Len(stack) = 1
       THEN /\ status' = "returned"
            /\ results' = Append(results, Outcome("returned", v))
       ELSE UNCHANGED <<status, results>>
    /\ UNCHANGED <<docs, cur, input, currentToken, retOk>>

(***************************************************************************)
(* skipWhitespaces (lines 84-92).                                          *)
(***************************************************************************)
\* 85: for p.input.Len() > 0
skipWhitespaces_Test ==
    /\ At("skipWhitespaces", "L85")
    /\ IF BufLen(input) > 0 THEN Goto("L86") ELSE Return
    /\ UNCHANGED <<input, currentToken, retOk, retVal>>

\* 86-87: currentChar := p.input.Next(1); is it whitespace?
skipWhitespaces_Read ==
    /\ At("skipWhitespaces", "L86")
    /\ LET c == NextData(input, 1)[1]
       IN  stack' = [stack EXCEPT ![Len(stack)].currentChar = c,
                                  ![Len(stack)].pc =
                                      IF c \notin Whitespace THEN "L88" ELSE "L85"]
    /\ input' = BufNext(input, 1)
    /\ UNCHANGED <<docs, cur, results, status, currentToken, retOk, retVal>>

\* 88-89: p.input.UnreadByte(); break
skipWhitespaces_Unread ==
    /\ At("skipWhitespaces", "L88")
    /\ input' = BufUnreadByte(input)
    /\ Return
    /\ UNCHANGED <<currentToken, retOk, retVal>>

(***************************************************************************)
(* readNextToken (lines 27-81).                                            *)
(***************************************************************************)
\* 28: p.skipWhitespaces()
readNextToken_Skip ==
    /\ At("readNextToken", "L28")
    /\ Call("L30", FrameSW)

\* 30: if p.input.Len() == 0
readNextToken_CheckEmpty ==
    /\ At("readNextToken", "L30")
    /\ Goto(IF BufLen(input) = 0 THEN "L31" ELSE "L35")
    /\ UNCHANGED <<input, currentToken, retOk, retVal>>

\* 35: currentChar := p.input.Next(1)
readNextToken_ReadChar ==
    /\ At("readNextToken", "L35")
    /\ stack' = [stack EXCEPT ![Len(stack)].currentChar = NextData(input, 1)[1],
                              ![Len(stack)].pc = "L38"]
    /\ input' = BufNext(input, 1)
    /\ UNCHANGED <<docs, cur, results, status, currentToken, retOk, retVal>>

\* 38-40, 41, 47, 53, 59-60, 68-69: switch currentChar[0]; a punctuation byte
\* is the token; a string or a number notes start := p.input.Len()
readNextToken_Switch ==
    /\ At("readNextToken", "L38")
    /\ LET c == Top.currentChar
       IN  /\ stack' = [stack EXCEPT
                 ![Len(stack)].pc =
                     CASE c \in Structural -> "L80"
                       [] c = "n" -> "L42"
                       [] c = "t" -> "L48"
                       [] c = "f" -> "L54"
                       [] c = Quote -> "L61"
                       [] OTHER -> "L70",
                 ![Len(stack)].start =
                     IF c \in Structural \cup {"n", "t", "f"} THEN 0 ELSE BufLen(input)]
           /\ currentToken' = IF c \in Structural THEN <<c>> ELSE currentToken
    /\ UNCHANGED <<docs, cur, results, status, input, retOk, retVal>>

\* if p.input.Len() >= n && string(p.input.Next(n)) == kw: the token is kw;
\* else return false (at line `fail`).  Next is not called when Len() < n.
Keyword(n, kw, fail) ==
    /\ input' = IF BufLen(input) >= n THEN BufNext(input, n) ELSE input
    /\ IF BufLen(input) >= n /\ NextData(input, n) = kw
       THEN currentToken' = kw /\ Goto("L80")
       ELSE currentToken' = currentToken /\ Goto(fail)
    /\ UNCHANGED <<retOk, retVal>>

\* 42-46
readNextToken_Null == At("readNextToken", "L42") /\ Keyword(4, null, "L45")
\* 48-52
readNextToken_True == At("readNextToken", "L48") /\ Keyword(4, true, "L51")
\* 54-58
readNextToken_False == At("readNextToken", "L54") /\ Keyword(5, false, "L57")

\* 61: for p.input.Len() > 0
readNextToken_StrTest ==
    /\ At("readNextToken", "L61")
    /\ Goto(IF BufLen(input) > 0 THEN "L62" ELSE "L80")
    /\ UNCHANGED <<input, currentToken, retOk, retVal>>

\* 62-63: currentChar := p.input.Next(1); is it the closing quote?
readNextToken_StrRead ==
    /\ At("readNextToken", "L62")
    /\ LET c == NextData(input, 1)[1]
       IN  stack' = [stack EXCEPT ![Len(stack)].currentChar = c,
                                  ![Len(stack)].pc = IF c = Quote THEN "L64" ELSE "L61"]
    /\ input' = BufNext(input, 1)
    /\ UNCHANGED <<docs, cur, results, status, currentToken, retOk, retVal>>

\* 64-65: p.currentToken = p.input.String()[start:p.input.Len()-1]; break
readNextToken_StrSlice ==
    /\ At("readNextToken", "L64")
    /\ IF SliceOK(BufString(input), Top.start, BufLen(input) - 1)
       THEN /\ currentToken' = GoSlice(BufString(input), Top.start, BufLen(input) - 1)
            /\ Goto("L80")
            /\ UNCHANGED <<input, retOk, retVal>>
       ELSE Abort("panic_slice_bounds")

\* 70: for p.input.Len() > 0
readNextToken_NumTest ==
    /\ At("readNextToken", "L70")
    /\ Goto(IF BufLen(input) > 0 THEN "L71" ELSE "L80")
    /\ UNCHANGED <<input, currentToken, retOk, retVal>>

\* 71-72: currentChar := p.input.Next(1); is it outside 0123456789+-.eE?
readNextToken_NumRead ==
    /\ At("readNextToken", "L71")
    /\ LET c == NextData(input, 1)[1]
       IN  stack' = [stack EXCEPT ![Len(stack)].currentChar = c,
                                  ![Len(stack)].pc =
                                      IF c \notin NumericSet THEN "L73" ELSE "L70"]
    /\ input' = BufNext(input, 1)
    /\ UNCHANGED <<docs, cur, results, status, currentToken, retOk, retVal>>

\* 73: p.input.UnreadByte()
readNextToken_NumUnread ==
    /\ At("readNextToken", "L73")
    /\ input' = BufUnreadByte(input)
    /\ Goto("L74")
    /\ UNCHANGED <<currentToken, retOk, retVal>>

\* 74-75: p.currentToken = p.input.String()[start:p.input.Len()]; break
readNextToken_NumSlice ==
    /\ At("readNextToken", "L74")
    /\ IF SliceOK(BufString(input), Top.start, BufLen(input))
       THEN /\ currentToken' = GoSlice(BufString(input), Top.start, BufLen(input))
            /\ Goto("L80")
            /\ UNCHANGED <<input, retOk, retVal>>
       ELSE Abort("panic_slice_bounds")

ReturnsFalse == {"L31", "L45", "L51", "L57"}

\* 31, 45, 51, 57: return false
readNextToken_ReturnFalse ==
    /\ status = "running" /\ stack # <<>>
    /\ Top.fn = "readNextToken" /\ Top.pc \in ReturnsFalse
    /\ retOk' = FALSE
    /\ Return
    /\ UNCHANGED <<input, currentToken, retVal>>

\* 80: return true
readNextToken_ReturnTrue ==
    /\ At("readNextToken", "L80")
    /\ retOk' = TRUE
    /\ Return
    /\ UNCHANGED <<input, currentToken, retVal>>

(***************************************************************************)
(* parseValue (lines 95-116).                                              *)
(***************************************************************************)
\* 96: p.readNextToken()
parseValue_Read ==
    /\ At("parseValue", "L96")
    /\ Call("L98", FrameRNT(input.off))

\* 98-107: switch p.currentToken
parseValue_Switch ==
    /\ At("parseValue", "L98")
    /\ stack' = [stack EXCEPT
           ![Len(stack)].ok = retOk,
           ![Len(stack)].pc =
               CASE currentToken \in {null, true, false} -> "L100"
                 [] currentToken = <<"{">> -> "L102"
                 [] currentToken = <<"[">> -> "L104"
                 [] OTHER -> "L107"]
    /\ UNCHANGED <<docs, cur, results, status, input, currentToken, retOk, retVal>>

\* 100: return JSONValue{Type: p.currentToken, Value: nil}
parseValue_ReturnKeyword ==
    /\ At("parseValue", "L100")
    /\ ReturnValue(JSONValue(TypeOf(currentToken), Nil))

\* 102: p.parseObject()
parseValue_Object ==
    /\ At("parseValue", "L102")
    /\ Call("L102r", FramePO)

\* 104: p.parseArray()
parseValue_Array ==
    /\ At("parseValue", "L104")
    /\ Call("L104r", FramePA)

\* 102, 104: return what parseObject or parseArray returned
parseValue_ReturnNested ==
    /\ status = "running" /\ stack # <<>>
    /\ Top.fn = "parseValue" /\ Top.pc \in {"L102r", "L104r"}
    /\ ReturnValue(retVal)

\* 107-114: a number if the token converts, else a string
parseValue_ReturnNumberOrString ==
    /\ At("parseValue", "L107")
    /\ ReturnValue(IF Float64(currentToken).ok
                   THEN JSONValue("number", Float64(currentToken).val)
                   ELSE JSONValue("string", currentToken))

(***************************************************************************)
(* parseObject (lines 119-142).                                            *)
(***************************************************************************)
\* 122: p.readNextToken()
parseObject_First ==
    /\ At("parseObject", "L122")
    /\ Call("L123", FrameRNT(input.off))

\* 123: for p.currentToken != "}"
parseObject_Test ==
    /\ At("parseObject", "L123")
    /\ Goto(IF currentToken # <<"}">> THEN "L124" ELSE "L141")
    /\ UNCHANGED <<input, currentToken, retOk, retVal>>

\* 124-127: key := p.currentToken; p.readNextToken()
parseObject_Key ==
    /\ At("parseObject", "L124")
    /\ IF Len(stack) >= StackLimit
       THEN Abort("stack_overflow")
       ELSE /\ stack' = Append([stack EXCEPT ![Len(stack)].key = currentToken,
                                             ![Len(stack)].pc = "L128"],
                               FrameRNT(input.off))
            /\ UNCHANGED <<docs, cur, results, status, input, currentToken, retOk, retVal>>

\* 128-130: if p.currentToken != ":" { panic("Expected ':'") }
parseObject_Colon ==
    /\ At("parseObject", "L128")
    /\ IF currentToken # <<":">>
       THEN Abort("panic_expected_colon")
       ELSE Goto("L133") /\ UNCHANGED <<input, currentToken, retOk, retVal>>

\* 133: p.readNextToken()
parseObject_ReadValue ==
    /\ At("parseObject", "L133")
    /\ Call("L134", FrameRNT(input.off))

\* 134: value := p.parseValue()
parseObject_ParseValue ==
    /\ At("parseObject", "L134")
    /\ Call("L135", FramePV)

\* 135: object[key] = value
parseObject_Insert ==
    /\ At("parseObject", "L135")
    /\ stack' = [stack EXCEPT ![Len(stack)].object = MapSet(Top.object, Top.key, retVal),
                              ![Len(stack)].pc = "L138"]
    /\ UNCHANGED <<docs, cur, results, status, input, currentToken, retOk, retVal>>

\* 138: p.readNextToken()
parseObject_Next ==
    /\ At("parseObject", "L138")
    /\ Call("L123", FrameRNT(input.off))

\* 141: return JSONValue{Type: "object", Value: object}
parseObject_Return ==
    /\ At("parseObject", "L141")
    /\ ReturnValue(JSONValue("object", Top.object))

(***************************************************************************)
(* parseArray (lines 145-159).                                             *)
(***************************************************************************)
\* 148: p.readNextToken()
parseArray_First ==
    /\ At("parseArray", "L148")
    /\ Call("L149", FrameRNT(input.off))

\* the token that ends the loop of parseArray
ArrayEnd == <<"}">>

\* 149: for p.currentToken != "}"
parseArray_Test ==
    /\ At("parseArray", "L149")
    /\ Goto(IF currentToken # ArrayEnd THEN "L151" ELSE "L158")
    /\ UNCHANGED <<input, currentToken, retOk, retVal>>

\* 151: value := p.parseValue()
parseArray_ParseValue ==
    /\ At("parseArray", "L151")
    /\ Call("L152", FramePV)

\* 152: array = append(array, value)
parseArray_Append ==
    /\ At("parseArray", "L152")
    /\ IF Len(Top.array) >= ArrayLimit
       THEN Abort("out_of_memory")
       ELSE /\ stack' = [stack EXCEPT ![Len(stack)].array = Append(Top.array, retVal),
                                      ![Len(stack)].pc = "L155"]
            /\ UNCHANGED <<docs, cur, results, status, input, currentToken, retOk, retVal>>

\* 155: p.readNextToken()
parseArray_Next ==
    /\ At("parseArray", "L155")
    /\ Call("L149", FrameRNT(input.off))

\* 158: return JSONValue{Type: "array", Value: array}
parseArray_Return ==
    /\ At("parseArray", "L158")
    /\ ReturnValue(JSONValue("array", Top.array))

(***************************************************************************)
(* The driver (lines 22-24, 176-179): a new parser for a document, and     *)
(* parseValue called on it.                                                *)
(***************************************************************************)
Terminal == {"returned", "panic_expected_colon", "panic_slice_bounds",
             "stack_overflow", "out_of_memory"}

NewJSONParser ==
    /\ status \in Terminal
    /\ cur < Len(docs)
    /\ cur' = cur + 1
    /\ input' = NewBuffer(docs[cur + 1])
    /\ currentToken' = <<>>
    /\ stack' = <<FramePV>>
    /\ status' = "running"
    /\ UNCHANGED <<docs, results, retOk, retVal>>

Init ==
    /\ docs \in {<<d>> : d \in Documents} \cup WsPairs
    /\ cur = 1
    /\ results = <<>>
    /\ input = NewBuffer(docs[1])
    /\ currentToken = <<>>
    /\ stack = <<FramePV>>
    /\ retOk = TRUE
    /\ retVal = ZeroValue
    /\ status = "running"

Next ==
    \/ NewJSONParser
    \/ skipWhitespaces_Test
    \/ skipWhitespaces_Read
    \/ skipWhitespaces_Unread
    \/ readNextToken_Skip
    \/ readNextToken_CheckEmpty
    \/ readNextToken_ReadChar
    \/ readNextToken_Switch
    \/ readNextToken_Null
    \/ readNextToken_True
    \/ readNextToken_False
    \/ readNextToken_StrTest
    \/ readNextToken_StrRead
    \/ readNextToken_StrSlice
    \/ readNextToken_NumTest
    \/ readNextToken_NumRead
    \/ readNextToken_NumUnread
    \/ readNextToken_NumSlice
    \/ readNextToken_ReturnFalse
    \/ readNextToken_ReturnTrue
    \/ parseValue_Read
    \/ parseValue_Switch
    \/ parseValue_ReturnKeyword
    \/ parseValue_Object
    \/ parseValue_Array
    \/ parseValue_ReturnNested
    \/ parseValue_ReturnNumberOrString
    \/ parseObject_First
    \/ parseObject_Test
    \/ parseObject_Key
    \/ parseObject_Colon
    \/ parseObject_ReadValue
    \/ parseObject_ParseValue
    \/ parseObject_Insert
    \/ parseObject_Next
    \/ parseObject_Return
    \/ parseArray_First
    \/ parseArray_Test
    \/ parseArray_ParseValue
    \/ parseArray_Append
    \/ parseArray_Next
    \/ parseArray_Return

Spec == Init /\ [][Next]_vars

\* the index of the first byte of buf at or after i that is not in S (0 if none)
RECURSIVE FindNot(_, _, _)
FindNot(buf, i, S) ==
    IF i > Len(buf) THEN 0 ELSE IF buf[i] \notin S THEN i ELSE FindNot(buf, i + 1, S)

(***************************************************************************)
(* What the properties speak about.                                        *)
(***************************************************************************)
Running == status = "running" /\ stack # <<>>

\* the index of the first byte of buf at or after i that is no whitespace
\* (Len(buf) + 1 if there is none)
RECURSIVE FirstByte(_, _)
FirstByte(buf, i) ==
    IF i <= Len(buf) /\ buf[i] \in Whitespace THEN FirstByte(buf, i + 1) ELSE i

\* the index of the first byte of buf at or after i that is in S (0 if none)
RECURSIVE Find(_, _, _)
Find(buf, i, S) ==
    IF i > Len(buf) THEN 0 ELSE IF buf[i] \in S THEN i ELSE Find(buf, i + 1, S)

\* the readNextToken activation in progress, if there is one: the top frame,
\* or the frame below a running skipWhitespaces
InLexer == stack # <<>> /\ Top.fn \in {"readNextToken", "skipWhitespaces"}
Lexer == IF Top.fn = "readNextToken" THEN Top ELSE stack[Len(stack) - 1]
\* the first byte the call in progress looks at
Lead == FirstByte(input.buf, Lexer.entry + 1)
\* the call in progress is at a return statement
AtReturn == Running /\ Top.fn = "readNextToken" /\ Top.pc \in ReturnsFalse \cup {"L80"}

\* x == y of Go on two float64: a NaN equals nothing, the two zeros are equal
SameFloat(x, y) ==
    /\ x.kind # "nan" /\ y.kind # "nan"
    /\ \/ x = y
       \/ /\ x.kind = "finite" /\ y.kind = "finite"
          /\ x.mant = ZeroBits /\ y.mant = ZeroBits

RECURSIVE SameValue(_, _)
SameValue(a, b) ==
    /\ a.Type = b.Type
    /\ CASE a.Type = "array" ->
              /\ Len(a.Value) = Len(b.Value)
              /\ \A i \in 1..Len(a.Value) : SameValue(a.Value[i], b.Value[i])
         [] a.Type = "object" ->
              /\ DOMAIN a.Value = DOMAIN b.Value
              /\ \A k \in DOMAIN a.Value : SameValue(a.Value[k], b.Value[k])
         [] a.Type = "number" -> SameFloat(a.Value, b.Value)
         [] a.Type = "string" -> a.Value = b.Value
         [] OTHER -> TRUE

\* the parse of the current document ended and returned the Value v
Returned(v) == status = "returned" /\ SameValue(results[cur].value, v)

PersonValue ==
    JSONValue("object",
        MapSet(MapSet(MapSet(MapSet(EmptyMap,
            <<"n", "a", "m", "e">>,
                StringValue(<<"J", "o", "h", "n", " ", "D", "o", "e">>)),
            <<"a", "g", "e">>, NumberValue(<<"3", "0">>)),
            <<"a", "c", "t", "i", "v", "e">>, JSONValue("true", Nil)),
            <<"t", "a", "g", "s">>,
                JSONValue("array", <<StringValue(<<"a">>), StringValue(<<"b">>)>>)))

Array123Value ==
    JSONValue("array",
        <<NumberValue(<<"1">>), NumberValue(<<"2">>), NumberValue(<<"3">>)>>)

NestedValue == JSONValue("array", <<StringValue(<<"x">>), Array123Value>>)

(***************************************************************************)
(* Properties.                                                             *)
(***************************************************************************)

\* C1: the parse of an object text "{" "key": value , ... "}" returns the
\* object that maps exactly the member keys to the member values; so for the
\* example of section 8 of the specification.
C1_ObjectMembers ==
    status \in Terminal =>
        /\ \A ms \in MemberLists :
               input.buf = ObjText(ms) => Returned(JSONValue("object", ObjMap(ms)))
        /\ input.buf = DocPerson => Returned(PersonValue)

\* C2: the parse of an array text "[" v1 , ... , vn "]" returns the array of
\* the n element values in order, and the loop of parseArray does not start
\* another round when the token read after an element is "]".
C2_ArrayElements ==
    /\ status \in Terminal =>
           /\ \A es \in ElementLists : input.buf = ArrText(es) => Returned(ArrValue(es))
           /\ input.buf = DocArray123 => Returned(Array123Value)
           /\ input.buf = DocNested => Returned(NestedValue)
    /\ ~(At("parseArray", "L151") /\ Top.array # <<>> /\ currentToken = <<"]">>)

\* two parses ended the same way: the same Value, or the same failure
SameOutcome(a, b) ==
    /\ a.kind = b.kind
    /\ a.kind = "returned" => SameValue(a.value, b.value)

\* C3: a whitespace byte inserted between two tokens does not change the
\* outcome of the parse.
C3_WhitespaceInsensitive ==
    (Len(docs) = 2 /\ Len(results) = 2) => SameOutcome(results[1], results[2])

\* the document is "{", a string key, and then a token that is not ":"
KeyThenNoColon(buf) ==
    LET a == FirstByte(buf, 1)
        k == FirstByte(buf, a + 1)
        q == Find(buf, k + 1, {Quote})
        r == FirstByte(buf, q + 1)
    IN  /\ a <= Len(buf) /\ buf[a] = "{"
        /\ k <= Len(buf) /\ buf[k] = Quote
        /\ q > 0
        /\ r <= Len(buf) /\ buf[r] # ":"

\* C4: when the token after an object key is not ":", the parse ends with
\* the "Expected ':'" failure and in no other way.
C4_ExpectedColon ==
    (status \in Terminal /\ KeyThenNoColon(input.buf)) => status = "panic_expected_colon"

\* C5: parseValue returns a Value only if its own readNextToken call
\* returned true.
C5_NoSwallowedFailure ==
    (Running /\ Top.fn = "parseValue" /\ Top.pc \in {"L100", "L102r", "L104r", "L107"})
        => Top.ok

\* C6: every parse ends by itself, with a Value or a failure: no run loops
\* or recurses until the memory or the stack is used up.
C6_Terminates == status \notin {"stack_overflow", "out_of_memory"}

\* the call in progress started before a string with a closing quote
StringCase ==
    /\ Lead <= Len(input.buf) /\ input.buf[Lead] = Quote
    /\ Find(input.buf, Lead + 1, {Quote}) > 0
    /\ \A i \in (Lead + 1)..Find(input.buf, Lead + 1, {Quote}) : input.buf[i] # "\\"

\* C7: a readNextToken call on a string returns true with the bytes between
\* the quotes as the token and the cursor right after the closing quote.
C7_StringToken ==
    (InLexer /\ StringCase) =>
        LET q == Find(input.buf, Lead + 1, {Quote})
        IN  /\ status # "panic_slice_bounds"
            /\ AtReturn =>
                   /\ Top.pc = "L80"
                   /\ currentToken = SubSeq(input.buf, Lead + 1, q - 1)
                   /\ input.off = q

\* the call in progress started before a numeric literal that is followed by
\* a byte outside 0-9 + - . e E
NumberCase ==
    /\ Lead <= Len(input.buf)
    /\ input.buf[Lead] \notin Structural \cup {"n", "t", "f", Quote}
    /\ FindNot(input.buf, Lead + 1, NumericSet) > 0

\* C8: a readNextToken call on a numeric literal returns true with the whole
\* span as the token, and does not consume the byte that ended the scan.
C8_NumberToken ==
    (InLexer /\ NumberCase) =>
        LET m == FindNot(input.buf, Lead + 1, NumericSet)
        IN  /\ status # "panic_slice_bounds"
            /\ AtReturn =>
                   /\ Top.pc = "L80"
                   /\ currentToken = SubSeq(input.buf, Lead, m - 1)
                   /\ input.off = m - 1

\* the bytes of buf from i on start with kw
StartsWith(buf, i, kw) ==
    i + Len(kw) - 1 <= Len(buf) /\ SubSeq(buf, i, i + Len(kw) - 1) = kw

\* C9: a readNextToken call on null, true or false returns true with the
\* keyword as the token and has consumed exactly the keyword; on n, t or f
\* followed by anything else it returns false.
C9_KeywordToken ==
    (AtReturn /\ Lead <= Len(input.buf) /\ input.buf[Lead] \in {"n", "t", "f"}) =>
        IF \E kw \in {null, true, false} : StartsWith(input.buf, Lead, kw)
        THEN \E kw \in {null, true, false} :
                 /\ StartsWith(input.buf, Lead, kw)
                 /\ Top.pc = "L80"
                 /\ currentToken = kw
                 /\ input.off = Lead - 1 + Len(kw)
        ELSE Top.pc \in ReturnsFalse

\* the cursor moves back: by one byte, over the byte read in the step before,
\* at the push-back of skipWhitespaces or of the numeric scan
StepBack ==
    (input'.buf = input.buf /\ cur' = cur /\ input'.off < input.off) =>
        /\ input'.off = input.off - 1
        /\ input.lastRead = "opRead"
        /\ At("skipWhitespaces", "L88") \/ At("readNextToken", "L73")
        /\ Top.currentChar = input.buf[input.off]

\* C10: at the return of a readNextToken call the cursor is not before where
\* it was at the call; a call that returns true has consumed a byte that is
\* no whitespace; the cursor moves back only by a single byte directly after
\* that byte was read.
C10_CursorMonotone ==
    /\ [](AtReturn => input.off >= Top.entry)
    /\ [](At("readNextToken", "L80") =>
             \E i \in (Top.entry + 1)..input.off : input.buf[i] \notin Whitespace)
    /\ [][StepBack]_vars

\* a call that skipped whitespace, scanned a number, pushed the byte after
\* it back and returns true
C10_Witness ==
    /\ At("readNextToken", "L80")
    /\ Top.entry > 0
    /\ input.buf[Top.entry + 1] \in Whitespace
    /\ input.lastRead = "opInvalid"
    /\ input.off > Top.entry + 1

====
